---- MODULE Spec2Model ----
(***************************************************************************)
(* Model of MediapipeFacemeshExtension                                     *)
(* (packages/extension-mediapipe-face-mesh/src/index.ts, and the near      *)
(* duplicate src/index.ts): the lifecycle hooks, the requestAnimationFrame *)
(* loop, the legacy (FaceMesh) and new (FaceLandmarker) backends, the      *)
(* recorded log and the result callbacks.                                  *)
(*                                                                         *)
(* The browser is part of the state: the list of animation-frame callbacks *)
(* that were requested and not yet run or cancelled, the video elements    *)
(* whose loadedmetadata event has not fired yet, and the frames the legacy *)
(* backend has been sent and has not finished with.                        *)
(***************************************************************************)
EXTENDS Integers, Sequences, FiniteSets

\* Bounds of the model.
MaxFrames == 2      \* handles window.requestAnimationFrame hands out
MaxMeta == 1        \* video elements waiting for their loadedmetadata event
MaxListeners == 2   \* length of onResultCallbacks

\* The callback functions the host owns.
Callbacks == {"f", "g"}

\* The two copies of the extension in the repository: "packages" is
\* packages/extension-mediapipe-face-mesh/src/index.ts, "src" is src/index.ts.
\* They differ in onFaceLandmarkerResult and in the fullTracking field only.
Builds == {"packages", "src"}

VARIABLES
  build,              \* which copy of the extension is running
  \* ---- fields of the extension object
  usingNewAPI,        \* this.usingNewAPI
  fullTracking,       \* this.fullTracking
  faceMesh,           \* this.faceMesh is assigned
  faceLandmarker,     \* this.faceLandmarker is assigned
  recordedChunks,     \* this.recordedChunks
  recordTracks,       \* this.recordTracks
  onResultCallbacks,  \* this.onResultCallbacks
  animationFrameId,   \* this.animationFrameId (0: undefined)
  \* ---- the environment
  initState,          \* "none", "ok", "rejected": the promise initialize returned
  nextHandle,         \* next handle of window.requestAnimationFrame
  pendingFrames,      \* handles requested, neither run nor cancelled
  metaPending,        \* video elements whose loadedmetadata is still to fire
  handlerBound,       \* faceMesh.onResults(...) has been called
  subs,               \* frames sent to the legacy backend, not finished
  out,                \* what the step just taken handed to the host (see Quiet)
  \* ---- history, for stating the properties
  started,            \* "never": on_start was not called; "degraded": every on_start
                      \* so far found no camera; "camera": some on_start found one
  stopped,            \* on_finish has returned and on_start was not called since
  configured,         \* "none", "on", "off": record option of the last on_load
  fullAsked,          \* initialize was given useFullTracking: true
  failed,             \* the backend could not be created or configured
  stale,              \* followed in Trials only: frames taken before the last
                      \* on_start whose result is in the log or still to come
  returned,           \* live: this.recordedChunks is the array on_finish returned;
                      \* log: its content when it was returned
  expected,           \* results emitted since the last on_load while recordTracks
  again               \* the step just taken was on_finish, and so was the one before

backend == <<build, usingNewAPI, fullTracking, faceMesh, faceLandmarker>>
extension == <<backend, recordedChunks, recordTracks, onResultCallbacks, animationFrameId>>
environment == <<initState, nextHandle, pendingFrames, metaPending, handlerBound,
                 subs, out>>
history == <<started, stopped, configured, fullAsked, failed, stale, returned,
             expected>>
vars == <<extension, environment, history, again>>

\* out of a step that returns no log and emits no result. Otherwise op is
\* "finish" (log: the face_mesh array on_finish returned) or "emit" (res: the
\* result object, to: the callbacks invoked with it, in order, threw: the index
\* of the callback that threw, 0 if none did).
Quiet == [op |-> "none", log |-> <<>>, res |-> <<>>, to |-> <<>>, threw |-> 0]

\* No log has been handed to the host since the last on_load.
NotReturned == [live |-> FALSE, log |-> <<>>]

\* State after the constructor (field initialisers, lines 25-40).
Init ==
  /\ build \in Builds
  /\ usingNewAPI = FALSE
  /\ fullTracking = FALSE
  /\ faceMesh = FALSE
  /\ faceLandmarker = FALSE
  /\ recordedChunks = <<>>
  /\ recordTracks = FALSE
  /\ onResultCallbacks = <<>>
  /\ animationFrameId = 0
  /\ initState = "none"
  /\ nextHandle = 1
  /\ pendingFrames = {}
  /\ metaPending = 0
  /\ handlerBound = FALSE
  /\ subs = {}
  /\ started = "never"
  /\ stopped = FALSE
  /\ configured = "none"
  /\ fullAsked = FALSE
  /\ failed = FALSE
  /\ stale = {}
  /\ returned = NotReturned
  /\ expected = <<>>
  /\ out = Quiet
  /\ again = FALSE

----------------------------------------------------------------------------
\* Array helpers, as JavaScript computes them.

RECURSIVE IndexFrom(_, _, _)
IndexFrom(s, x, i) ==
  IF i > Len(s) THEN -1
  ELSE IF s[i] = x THEN i - 1
  ELSE IndexFrom(s, x, i + 1)

\* Array.prototype.indexOf: 0-based index of the first occurrence, -1 if none.
IndexOf(s, x) == IndexFrom(s, x, 1)

\* Array.prototype.splice(start, 1): a negative start counts from the end.
Splice1(s, start) ==
  LET from == IF start < 0
              THEN (IF Len(s) + start < 0 THEN 0 ELSE Len(s) + start)
              ELSE (IF start > Len(s) THEN Len(s) ELSE start)
  IN  IF from >= Len(s) THEN s
      ELSE SubSeq(s, 1, from) \o SubSeq(s, from + 2, Len(s))

\* The callbacks forEach reaches when the callback at index t throws (0: none throws).
Invoked(cbs, t) == IF t = 0 THEN cbs ELSE SubSeq(cbs, 1, t)

\* window.cancelAnimationFrame(id): an unknown or undefined handle is ignored.
Cancel(frames, id) == frames \ {id}

----------------------------------------------------------------------------
\* The normalized record (IFaceTrackingResult). The optional fields are modelled
\* by their presence; tick is the handle of the animation frame whose captured
\* image produced the record (history, not a field of the object).
Result(fid, tick, hasTransform, hasBlendshapes) ==
  [frame_id |-> fid, transformation |-> hasTransform, rotation |-> hasTransform,
   translation |-> hasTransform, blendshapes |-> hasBlendshapes, tick |-> tick]

\* The record src/index.ts builds for the new API (unityData): no frame_id
\* (0 here) and no transformation; rotation and translation start as
\* new Euler() and new Vector3(), all zero, and are always there, as is the
\* blendshapes object. (Its landmarks and orientation fields are not modelled.)
UnityData(tick) ==
  [frame_id |-> 0, transformation |-> FALSE, rotation |-> TRUE,
   translation |-> TRUE, blendshapes |-> TRUE, tick |-> tick]

\* Emit with the test of recordTracks left out: every result is pushed.
Emit_AlwaysRecords(r, t) ==
  /\ recordedChunks' = Append(recordedChunks, r)
  /\ out' = [Quiet EXCEPT !.op = "emit", !.res = <<r>>,
                          !.to = Invoked(onResultCallbacks, t), !.threw = t]

\* "if (this.recordTracks) this.recordedChunks.push(result);
\*  this.onResultCallbacks.forEach((cb) => cb(result));"
\* t is the index of the callback that throws (0: none does): forEach stops there
\* and the exception leaves the function.
Emit(r, t) ==
  /\ recordedChunks' = IF recordTracks THEN Append(recordedChunks, r) ELSE recordedChunks
  /\ out' = [Quiet EXCEPT !.op = "emit", !.res = <<r>>,
                          !.to = Invoked(onResultCallbacks, t), !.threw = t]

NoEmit == UNCHANGED recordedChunks /\ out' = Quiet

\* window.requestAnimationFrame(this.processFrame.bind(this)), stored in
\* this.animationFrameId; frames is the callback list before the request.
requestAnimationFrame(frames) ==
  /\ nextHandle <= MaxFrames
  /\ animationFrameId' = nextHandle
  /\ pendingFrames' = frames \cup {nextHandle}
  /\ nextHandle' = nextHandle + 1

\* The function ends (or rejects) without requesting another frame.
NoRequest(frames) ==
  /\ pendingFrames' = frames
  /\ UNCHANGED <<animationFrameId, nextHandle>>

----------------------------------------------------------------------------
\* The methods of the extension: their effect on its fields and on the browser.

\* initialize with the creation wrapped in try/catch that only logs the error:
\* the promise resolves whatever happened.
initialize_SwallowsFailure(useNew, full, ok) ==
  /\ usingNewAPI' = useNew
  /\ fullTracking' = (build = "packages" /\ full)
  /\ faceLandmarker' = (useNew /\ ok)
  /\ faceMesh' = ~useNew
  /\ initState' = "ok"
  /\ out' = Quiet
  /\ UNCHANGED <<build, recordedChunks, recordTracks, onResultCallbacks,
                 animationFrameId, nextHandle, pendingFrames, metaPending,
                 handlerBound, subs>>

\* initialize(params): useNew = params.useFaceLandmarker, full = params.useFullTracking;
\* ok: the backend was created and configured, otherwise the awaited call rejected.
initialize(useNew, full, ok) ==
  /\ usingNewAPI' = useNew
  /\ fullTracking' = (build = "packages" /\ full)   \* src/index.ts has no such field
  /\ faceLandmarker' = (useNew /\ ok)
  /\ faceMesh' = ~useNew
  /\ initState' = IF ok THEN "ok" ELSE "rejected"
  /\ out' = Quiet
  /\ UNCHANGED <<build, recordedChunks, recordTracks, onResultCallbacks,
                 animationFrameId, nextHandle, pendingFrames, metaPending,
                 handlerBound, subs>>

\* on_start without the early return of "if (!this.mediaStream)": the video
\* element is set up whatever getCameraStream() returned.
on_start_NoStreamCheck(stream) ==
  /\ metaPending' = metaPending + 1
  /\ handlerBound' = (handlerBound \/ (~usingNewAPI /\ faceMesh))
  /\ out' = Quiet
  /\ UNCHANGED <<backend, recordedChunks, recordTracks, onResultCallbacks,
                 animationFrameId, initState, nextHandle, pendingFrames, subs>>

\* on_start(): stream says whether getCameraStream() returned a stream. With a
\* stream the new video element will fire loadedmetadata, and the legacy backend
\* is given the result handler.
on_start(stream) ==
  /\ IF ~stream
     THEN UNCHANGED <<metaPending, handlerBound>>
     ELSE /\ metaPending' = metaPending + 1
          /\ handlerBound' = (handlerBound \/ (~usingNewAPI /\ faceMesh))
  /\ out' = Quiet
  /\ UNCHANGED <<backend, recordedChunks, recordTracks, onResultCallbacks,
                 animationFrameId, initState, nextHandle, pendingFrames, subs>>

\* on_load(params): record = params?.record ?? false.
on_load(record) ==
  /\ recordedChunks' = <<>>
  /\ recordTracks' = record
  /\ out' = Quiet
  /\ UNCHANGED <<backend, onResultCallbacks, animationFrameId, initState, nextHandle,
                 pendingFrames, metaPending, handlerBound, subs>>

\* stopAnimationFrame(): window.cancelAnimationFrame(this.animationFrameId).
stopAnimationFrame == Cancel(pendingFrames, animationFrameId)

\* on_finish without "this.recordTracks = false": recording goes on after the
\* log was returned.
on_finish_KeepsRecording ==
  /\ pendingFrames' = stopAnimationFrame
  /\ out' = [Quiet EXCEPT !.op = "finish", !.log = recordedChunks]
  /\ UNCHANGED <<backend, recordedChunks, recordTracks, onResultCallbacks,
                 animationFrameId, initState, nextHandle, metaPending, handlerBound,
                 subs>>

\* on_finish(): returns { face_mesh: this.recordedChunks }.
on_finish ==
  /\ pendingFrames' = stopAnimationFrame
  /\ recordTracks' = FALSE
  /\ out' = [Quiet EXCEPT !.op = "finish", !.log = recordedChunks]
  /\ UNCHANGED <<backend, recordedChunks, onResultCallbacks, animationFrameId,
                 initState, nextHandle, metaPending, handlerBound, subs>>

\* addTrackingResultCallback(callback)
addTrackingResultCallback(cb) ==
  /\ onResultCallbacks' = Append(onResultCallbacks, cb)
  /\ out' = Quiet
  /\ UNCHANGED <<backend, recordedChunks, recordTracks, animationFrameId, initState,
                 nextHandle, pendingFrames, metaPending, handlerBound, subs>>

\* removeTrackingResultCallback(callback)
removeTrackingResultCallback(cb) ==
  /\ onResultCallbacks' = Splice1(onResultCallbacks, IndexOf(onResultCallbacks, cb))
  /\ out' = Quiet
  /\ UNCHANGED <<backend, recordedChunks, recordTracks, animationFrameId, initState,
                 nextHandle, pendingFrames, metaPending, handlerBound, subs>>

\* this.videoElement.onloadedmetadata of a video element on_start created.
onloadedmetadata ==
  /\ metaPending' = metaPending - 1
  /\ requestAnimationFrame(stopAnimationFrame)
  /\ NoEmit
  /\ UNCHANGED <<backend, recordTracks, onResultCallbacks, initState, handlerBound, subs>>

\* onFaceLandmarkerResult(results): face = the landmarker found a face, and then
\* results.facialTransformationMatrixes and results.faceBlendshapes are not empty
\* (initialize asks for both outputs); without a face both are empty.
onFaceLandmarkerResult(tick, face, t) ==
  IF build = "packages"
  THEN Emit(Result(animationFrameId, tick, face, fullTracking /\ face), t)
  ELSE Emit(UnityData(tick), t)

\* onMediaPipeResult(results): geometry = results.multiFaceGeometry[0] exists.
onMediaPipeResult(tick, geometry, t) ==
  IF geometry
  THEN Emit(Result(animationFrameId, tick, TRUE, FALSE), t)
  ELSE NoEmit

\* processFrame(), run by the browser for the handle h, up to its first await,
\* and for the new API to its end: face is what detectForVideo finds, t the
\* callback that throws.
processFrame(h, face, t) ==
  /\ LET frames == pendingFrames \ {h} IN
     IF usingNewAPI
     THEN /\ UNCHANGED subs
          /\ IF ~faceLandmarker
             THEN NoEmit /\ NoRequest(frames)    \* TypeError: the promise rejects
             ELSE /\ onFaceLandmarkerResult(h, face, t)
                  /\ IF t = 0 THEN requestAnimationFrame(frames) ELSE NoRequest(frames)
     ELSE /\ NoEmit
          /\ NoRequest(frames)
          /\ subs' = IF faceMesh
                     THEN subs \cup {[tick |-> h, awaiting |-> TRUE, resulted |-> FALSE]}
                     ELSE subs                   \* TypeError: the promise rejects
  /\ UNCHANGED <<backend, recordTracks, onResultCallbacks, initState, metaPending,
                 handlerBound>>

\* A frame the backend is done with on both sides is forgotten.
Settle(s) == IF ~s.awaiting /\ s.resulted THEN {} ELSE {s}

\* processFrame with backpressure: after the await the next frame is requested
\* only if the result of this one has been delivered.
processFrameResumed_WaitsForResult(s, resolved) ==
  /\ subs' = (subs \ {s}) \cup Settle([s EXCEPT !.awaiting = FALSE])
  /\ IF resolved /\ s.resulted
     THEN requestAnimationFrame(pendingFrames)
     ELSE NoRequest(pendingFrames)
  /\ NoEmit
  /\ UNCHANGED <<backend, recordTracks, onResultCallbacks, initState, metaPending,
                 handlerBound>>

\* processFrame() after "await this.faceMesh.send(...)": resolved says whether the
\* promise resolved; when it rejected the function ends there.
processFrameResumed(s, resolved) ==
  /\ subs' = (subs \ {s}) \cup Settle([s EXCEPT !.awaiting = FALSE])
  /\ IF resolved THEN requestAnimationFrame(pendingFrames) ELSE NoRequest(pendingFrames)
  /\ NoEmit
  /\ UNCHANGED <<backend, recordTracks, onResultCallbacks, initState, metaPending,
                 handlerBound>>

\* The legacy backend finishes the frame s and calls the handler on_start gave to
\* onResults, if any.
faceMeshResults(s, geometry, t) ==
  /\ subs' = (subs \ {s}) \cup Settle([s EXCEPT !.resulted = TRUE])
  /\ IF handlerBound THEN onMediaPipeResult(s.tick, geometry, t) ELSE NoEmit
  /\ UNCHANGED <<backend, recordTracks, onResultCallbacks, animationFrameId, initState,
                 nextHandle, pendingFrames, metaPending, handlerBound>>

----------------------------------------------------------------------------
\* The steps of a session: a call by the host or an event of the browser or the
\* backend, with the history it leaves. The host calls on_start, on_load and
\* on_finish only after the promise of initialize has resolved.

\* The frames whose result is in the log or has not been reported yet.
Accountable(log, sent) ==
  {log[i].tick : i \in DOMAIN log} \cup {s.tick : s \in {x \in sent : ~x.resulted}}

\* expected follows the results as they are emitted.
Observe ==
  expected' = IF out'.op = "emit" /\ recordTracks THEN expected \o out'.res ELSE expected

\* The two copies are the same code under the legacy API, so the sessions of the
\* legacy API are those of the "packages" copy.
Initialize(useNew, full, ok) ==
  /\ initState = "none"
  /\ build = "src" => useNew
  /\ initialize(useNew, full, ok)
  /\ fullAsked' = full
  /\ failed' = ~ok
  /\ UNCHANGED <<started, stopped, configured, stale, returned, expected>>
  /\ again' = FALSE

StartCall(stream) ==
  /\ initState = "ok"
  /\ stream => metaPending < MaxMeta
  /\ on_start(stream)
  /\ started' = IF stream \/ started = "camera" THEN "camera" ELSE "degraded"
  /\ stopped' = FALSE
  /\ UNCHANGED <<configured, fullAsked, failed, returned, expected>>
  /\ again' = FALSE

Start(stream) == StartCall(stream) /\ UNCHANGED stale

LoadCall(record) ==
  /\ initState = "ok"
  /\ on_load(record)
  /\ configured' = IF record THEN "on" ELSE "off"
  /\ expected' = <<>>
  /\ returned' = NotReturned
  /\ UNCHANGED <<started, stopped, fullAsked, failed>>
  /\ again' = FALSE

Load(record) == LoadCall(record) /\ UNCHANGED stale

Finish ==
  /\ initState = "ok"
  /\ on_finish
  /\ stopped' = TRUE
  /\ returned' = [live |-> TRUE, log |-> out'.log]
  /\ UNCHANGED <<started, configured, fullAsked, failed, stale, expected>>
  /\ again' = (out.op = "finish")

Register(cb) ==
  /\ Len(onResultCallbacks) < MaxListeners
  /\ addTrackingResultCallback(cb)
  /\ UNCHANGED history
  /\ again' = FALSE

Unregister(cb) ==
  /\ removeTrackingResultCallback(cb)
  /\ UNCHANGED history
  /\ again' = FALSE

MetadataLoaded ==
  /\ metaPending > 0
  /\ onloadedmetadata
  /\ UNCHANGED history
  /\ again' = FALSE

Tick(h) ==
  /\ h \in pendingFrames
  /\ \E face \in BOOLEAN : \E t \in 0..Len(onResultCallbacks) : processFrame(h, face, t)
  /\ Observe
  /\ UNCHANGED <<started, stopped, configured, fullAsked, failed, stale, returned>>
  /\ again' = FALSE

SendResolved(s) ==
  /\ s \in subs /\ s.awaiting
  /\ processFrameResumed(s, TRUE)
  /\ UNCHANGED history
  /\ again' = FALSE

SendRejected(s) ==
  /\ s \in subs /\ s.awaiting
  /\ processFrameResumed(s, FALSE)
  /\ UNCHANGED history
  /\ again' = FALSE

ResultCall(s) ==
  /\ s \in subs /\ ~s.resulted
  /\ \E geometry \in BOOLEAN : \E t \in 0..Len(onResultCallbacks) :
       /\ geometry \/ t = 0
       /\ faceMeshResults(s, geometry, t)
  /\ Observe
  /\ UNCHANGED <<started, stopped, configured, fullAsked, failed, returned>>
  /\ again' = FALSE

BackendResult(s) == ResultCall(s) /\ UNCHANGED stale

Next ==
  \/ \E useNew, full, ok \in BOOLEAN : Initialize(useNew, full, ok)
  \/ \E stream \in BOOLEAN : Start(stream)
  \/ \E record \in BOOLEAN : Load(record)
  \/ Finish
  \/ \E cb \in Callbacks : Register(cb)
  \/ \E cb \in Callbacks : Unregister(cb)
  \/ MetadataLoaded
  \/ \E h \in pendingFrames : Tick(h)
  \/ \E s \in subs : SendResolved(s)
  \/ \E s \in subs : SendRejected(s)
  \/ \E s \in subs : BackendResult(s)

Spec == Init /\ [][Next]_vars

\* The same sessions with stale followed: on_start marks the frames taken so far
\* that are in the log or still with the backend, and a frame is forgotten when
\* on_load drops its log entry or its result comes and is not logged.
StartOfTrial(stream) ==
  StartCall(stream) /\ stale' = Accountable(recordedChunks, subs)

LoadInTrial(record) ==
  LoadCall(record) /\ stale' = stale \cap Accountable(recordedChunks', subs')

ResultInTrial(s) ==
  ResultCall(s) /\ stale' = stale \cap Accountable(recordedChunks', subs')

TrialNext ==
  \/ \E useNew, full, ok \in BOOLEAN : Initialize(useNew, full, ok)
  \/ \E stream \in BOOLEAN : StartOfTrial(stream)
  \/ \E record \in BOOLEAN : LoadInTrial(record)
  \/ Finish
  \/ \E cb \in Callbacks : Register(cb)
  \/ \E cb \in Callbacks : Unregister(cb)
  \/ MetadataLoaded
  \/ \E h \in pendingFrames : Tick(h)
  \/ \E s \in subs : SendResolved(s)
  \/ \E s \in subs : SendRejected(s)
  \/ \E s \in subs : ResultInTrial(s)

Trials == Init /\ [][TrialNext]_vars

----------------------------------------------------------------------------
\* Properties.

\* The loop iterations that are alive: frames requested and not yet run, and
\* processFrame calls suspended in "await this.faceMesh.send(...)".
InFlight == {s \in subs : s.awaiting}
Chains == Cardinality(pendingFrames) + Cardinality(InFlight)

\* The scheduler is idle: nothing is scheduled and nothing is in flight.
Idle == pendingFrames = {} /\ InFlight = {}

\* C1: removing a callback that is not registered leaves the registered
\* callbacks as they were.
C1_UnregisterAbsentIsNoOp ==
  [][\A cb \in Callbacks :
       (IndexOf(onResultCallbacks, cb) = -1 /\ Unregister(cb))
         => onResultCallbacks' = onResultCallbacks]_vars

\* C2: when a callback throws during the delivery of a result, the callbacks after
\* it are still invoked with the result, and the new-API tick that delivered it
\* has requested the next frame.
C2_ListenerFailureIsolated ==
  (out.op = "emit" /\ out.threw # 0)
    => /\ out.to = onResultCallbacks
       /\ usingNewAPI => \E h \in pendingFrames : h > out.res[1].tick

\* C3: after on_finish has returned, and until the next on_start, no frame is
\* scheduled.
C3_FinishStopsScheduler == stopped => pendingFrames = {}

\* C4: at every moment at most one loop iteration is alive (scheduled or in
\* flight).
C4_AtMostOneLoop == Chains <= 1

\* C5: when on_start finds no camera stream, the scheduler is idle when it
\* returns, whatever it was before.
C5_DegradedStartLeavesIdle == [][Start(FALSE) => Idle']_vars

\* C6: as long as no on_start has found a camera stream, no result is emitted
\* (so no callback is invoked) and the log on_finish returns is empty.
C6_NoCameraNoResults ==
  started # "camera"
    => /\ out.op # "emit"
       /\ out.op = "finish" => out.log = <<>>

\* on_start found no camera, recording was asked for, two callbacks are
\* registered, and on_finish has just returned.
C6_Witness ==
  /\ started = "degraded"
  /\ configured = "on"
  /\ Len(onResultCallbacks) = 2
  /\ out.op = "finish"

\* C7: an on_finish that directly follows an on_finish returns an empty log.
C7_SecondFinishEmpty == again => out.log = <<>>

\* C8: in a trial configured with recording off, the log on_finish returns is
\* empty and every emitted result is delivered to every registered callback.
C8_RecordingIsolation ==
  configured = "off"
    => /\ out.op = "finish" => out.log = <<>>
       /\ out.op = "emit" => out.to = onResultCallbacks

\* C9: the log is the sequence of the results emitted since the last on_load
\* while recordTracks was true, in the order they were emitted; on_load empties
\* the log and sets recordTracks from its option, and only on_finish clears
\* recordTracks afterwards.
C9_LogIsRecordedArrivals ==
  /\ recordedChunks = expected
  /\ configured = "none" => (recordedChunks = <<>> /\ ~recordTracks)
  /\ configured = "off" => (recordedChunks = <<>> /\ ~recordTracks)
  /\ recordTracks => configured = "on"

\* A result was recorded, on_finish cleared recordTracks, and the result emitted
\* just now was left out of the log.
C9_Witness ==
  /\ Len(recordedChunks) = 1
  /\ out.op = "emit"
  /\ out.res[1] # recordedChunks[1]
  /\ ~recordTracks

\* C10: every emitted result is delivered to exactly the registered callbacks,
\* in the order of their registration, and it is the object appended to the log
\* when recording.
C10_DeliveryInRegistrationOrder ==
  out.op = "emit"
    => /\ out.to = onResultCallbacks
       /\ recordTracks => (recordedChunks # <<>>
                           /\ recordedChunks[Len(recordedChunks)] = out.res[1])

\* The results the host can see now: the one just emitted and the logged ones.
Visible == {out.res[i] : i \in DOMAIN out.res} \cup
           {recordedChunks[i] : i \in DOMAIN recordedChunks}

\* No element occurs twice in s.
NoDup(s) == \A i, j \in DOMAIN s : s[i] = s[j] => i = j

\* C11: the registered callbacks form a set: no callback is invoked twice with
\* one result, however often it was registered.
C11_DeliveredOncePerCallback == out.op = "emit" => NoDup(out.to)

\* C12: in every result rotation and translation are present exactly when
\* transformation is (a frame without a facial transform has none of the three).
C12_TransformFieldsTogether ==
  \A r \in Visible : r.rotation = r.transformation /\ r.translation = r.transformation

\* C13: a result carries blendshapes only under the new API in a session that
\* was initialized with useFullTracking.
C13_BlendshapesOnlyFullModern ==
  \A r \in Visible : r.blendshapes => (usingNewAPI /\ fullAsked)

\* C14: every result carries the handle of the frame whose image produced it,
\* and the frame ids in the log increase strictly.
C14_FrameIdIdentifiesTick ==
  /\ \A r \in Visible : r.frame_id = r.tick
  /\ \A i, j \in DOMAIN recordedChunks :
       i < j => recordedChunks[i].frame_id < recordedChunks[j].frame_id

TickCompleted ==
  \/ usingNewAPI /\ \E h \in pendingFrames : Tick(h)
  \/ \E s \in subs : SendResolved(s) \/ SendRejected(s)

\* C16: every tick that runs to its end has requested the next frame, whatever
\* the backend returned and whatever the listeners did.
C16_TickReschedules ==
  [][TickCompleted => (animationFrameId' \in pendingFrames' /\
                       animationFrameId' # animationFrameId)]_vars

Deliveries(cb) == Cardinality({i \in DOMAIN out.to : out.to[i] = cb})

Registered == {onResultCallbacks[i] : i \in DOMAIN onResultCallbacks}

\* C18: a step emits at most one result and hands it exactly once to every
\* registered listener and to nobody else; every tick under the FaceLandmarker
\* API emits a result; a legacy result without face geometry reaches no listener
\* and leaves the log as it was.
C18_OneDeliveryPerFrame ==
  [][/\ out'.op = "emit" =>
          /\ Len(out'.res) = 1
          /\ \A cb \in Callbacks : Deliveries(cb)' = IF cb \in Registered THEN 1 ELSE 0
     /\ (usingNewAPI /\ \E h \in pendingFrames : Tick(h)) => out'.op = "emit"
     /\ (\E s \in subs : ~s.resulted /\ faceMeshResults(s, FALSE, 0)) =>
          (out'.op = "none" /\ recordedChunks' = recordedChunks)]_vars

\* C19 (under Trials): every entry of the log on_finish returns comes from a
\* frame that was taken after the last on_start.
C19_LogOfThisTrialOnly ==
  out.op = "finish" => \A i \in DOMAIN out.log : out.log[i].tick \notin stale

\* C20: the array on_finish returned still holds what it held when it was
\* returned, as long as the extension keeps it.
C20_ReturnedLogStable == returned.live => recordedChunks = returned.log

\* C20 witness: a result arrives after on_finish returned a log with an entry,
\* and the log is as it was.
C20_Witness ==
  returned.live /\ Len(returned.log) > 0 /\ out.op = "emit" /\ recordedChunks = returned.log

====
